---- MODULE Spec2Model ----
(***************************************************************************)
(* Connection-pool and query-execution core of the database admin tool:    *)
(* DatabaseStorage (server storage module) and the HTTP routes calling it. *)
(* Every request handler is an async task; a task moves only at the        *)
(* points where the source awaits, so one action is one run-to-completion  *)
(* segment of a handler between two awaits. The statement builder of the   *)
(* data route, the export serialiser, the history listing and the catalog  *)
(* query of getTableColumns are functions of their inputs; each has a      *)
(* route of its own whose first step draws the input.                      *)
(***************************************************************************)
EXTENDS Integers, Sequences, FiniteSets, TLC

\* ------------------------------------------------------------------ bounds
\* Rows query_history may hold in one behaviour.
MaxHistory == 1

\* Concurrent request handlers; connection ids ("c1" is registered when the
\* server starts, "c2" is an id no record has); credential tuples (host,
\* port, database, user, password, ssl taken together); statements a user
\* may type.
Procs == {"t1", "t2"}
ConnIds == {"c1", "c2"}
Creds == {"credA", "credB"}
Queries == {"SELECT 1"}

\* What the body of a POST .../query may carry as query: nothing, the empty
\* string, a value that is not a string, a statement.
Bodies ==
  {[type |-> "undefined", text |-> "undefined"], [type |-> "string", text |-> ""],
   [type |-> "number", text |-> "5"]}
  \cup {[type |-> "string", text |-> q] : q \in Queries}

\* JavaScript's truthiness and typeof on such a value.
Truthy(v) ==
  ~(\/ v.type = "undefined"
    \/ (v.type = "string" /\ v.text = "")
    \/ (v.type = "number" /\ v.text = "0"))

TypeOf(v) == v.type

\* Mutant of QueryRouteAccepts: only  !query  is tested.
QueryRouteAcceptsTruthy(query) == Truthy(query)

\* The query route goes on to executeQuery unless
\*   !query || typeof query !== 'string'
QueryRouteAccepts(query) == ~(~Truthy(query) \/ TypeOf(query) # "string")

\* ------------------------------------------------------- program constants
NotFoundMessage == "Connection not found"
ForeignKeyMessage == "violates foreign key constraint"
EngineMessages == {"syntax error"}
NullError == "null"

\* A nullable number is <<>> (null/undefined) or <<n>>.
Null == <<>>
RowCounts == {Null, <<2>>}

\* Mutant of OrZero: an absent count is reported as 1.
OrOne(x) == IF x = Null THEN 1 ELSE x[1]

\* JavaScript's  x || 0  on a nullable number.
OrZero(x) == IF x = Null THEN 0 ELSE x[1]

\* The operations that begin with  await this.getConnectionPool(connectionId).
\* getTables, getTableColumns, getTableData and exportTableData have the shape
\* of getDatabases in everything modelled here (acquire the pool, one
\* pool.query, map the rows, no history), so getDatabases stands for them.
SystemOps == {"getDatabases"}
PoolOps == SystemOps \cup {"executeQuery"}

VARIABLES
  connections,      \* the connections table: id -> record
  queryHistory,     \* the query_history table, in insertion order
  pools,            \* the heap of Pool objects getConnectionPool constructed
                    \* that the map or some task still refers to
  connectionPools,  \* DatabaseStorage.connectionPools: Map<string, Pool>
  pc,               \* per task: the await it is suspended at, "done" or "idle"
  call,             \* per task: the storage call its request made
  local,            \* per task: the locals of that call
  ret,              \* per task: how the call ended
  quietDeleted,     \* history: ids whose deleteConnection returned normally
                    \* with no other request in flight during the call
  request,          \* the data route: the browse request being handled
  statement,        \* the data route: what getTableData hands to pool.query
  exportRequest,    \* the export route: the request and the rows the table holds
  exportStatement,  \* the export route: the text exportTableData hands to pool.query
  exportData,       \* the export route: the string exportTableData returns
  historyTable,     \* the history route: query_history with its created_at column
  dbClock,          \* the history route: what now() reads in the local database
  listing,          \* the history route: what getQueryHistory returned
  catalog,          \* the columns route: the remote database's information_schema
  columns           \* the columns route: what getTableColumns returned

storageVars == <<connections, queryHistory, pools, connectionPools,
                 pc, call, local, ret, quietDeleted>>

browseVars == <<request, statement>>

exportVars == <<exportRequest, exportStatement, exportData>>

historyVars == <<historyTable, dbClock, listing>>

columnsVars == <<catalog, columns>>

\* Everything the storage calls of the task model leave alone.
routeVars == <<browseVars, exportVars, historyVars, columnsVars>>

vars == <<storageVars, routeVars>>

\* ------------------------------------------------------------ Map helpers
MapHas(m, k) == k \in DOMAIN m

MapSet(m, k, v) == [x \in DOMAIN m \cup {k} |-> IF x = k THEN v ELSE m[x]]

MapDelete(m, k) == [x \in DOMAIN m \ {k} |-> m[x]]

\* new Pool({host, port, database, user, password, ssl})
NewPool(creds, id) == [creds |-> creds, id |-> id, ended |-> FALSE]

\* The address a newly constructed Pool gets.
FreshRef(ps) == CHOOSE i \in 1..(Cardinality(DOMAIN ps) + 1) : i \notin DOMAIN ps

\* Garbage collection: a Pool neither the map nor any task's locals refer to
\* can never be used again and leaves the heap.
Collect(ps, m, l) ==
  [i \in {j \in DOMAIN ps : \/ \E k \in DOMAIN m : m[k] = j
                            \/ \E q \in DOMAIN l : l[q].pool = j \/ l[q].evicted = j}
     |-> ps[i]]

\* ----------------------------------------------------------- task records
NoCall == [op |-> "none", id |-> "none", creds |-> "none", query |-> "none"]

\* conn, pool, remote, rowCount, error are the locals of the source; ended is
\* the state of testConnection's throwaway pool; issued counts the statements
\* the call submitted, saved lists the history rows it inserted and overdue
\* is whether its statement has been pending for longer than the execution
\* timeout the operator configured. History
\* of the call, kept for the properties: rivals (the first-time acquisitions
\* of the same id that were suspended when this one missed the map), evicted
\* (the pool the map held for the id when deleteConnection removed the entry,
\* or when updateConnection changed the credentials) and alone (no other
\* request was in flight during this deleteConnection).
Locals0 == [conn |-> "undefined", pool |-> 0, ended |-> FALSE,
            rivals |-> {}, evicted |-> 0, alone |-> FALSE,
            remote |-> "none", rowCount |-> Null, error |-> NullError,
            issued |-> 0, saved |-> <<>>, overdue |-> FALSE]

NoRet == [kind |-> "none", value |-> "none", rowCount |-> 0, error |-> NullError]

Running == {q \in Procs : pc[q] # "idle"}

\* A request arrives and its handler enters the storage call c with locals l.
\* Bookkeeping on the other tasks: a deleteConnection in flight is no longer
\* alone, and a deleteConnection(id) ends the rivalry of the first-time
\* acquisitions of id that are under way.
Invoke(p, c, l) ==
  /\ pc[p] = "idle"
  /\ call' = [call EXCEPT ![p] = c]
  /\ local' = [q \in Procs |->
                 IF q = p THEN l
                 ELSE [local[q] EXCEPT
                         !.alone = IF pc[q] = "done" THEN @ ELSE FALSE,
                         !.rivals = IF c.op = "deleteConnection" /\ call[q].id = c.id
                                    THEN {} ELSE @]]

\* The storage call ends, normally ("ok") or by a throw ("error").
ReturnRows(p, kind, value, rowCount, error) ==
  /\ pc' = [pc EXCEPT ![p] = "done"]
  /\ ret' = [ret EXCEPT ![p] = [kind |-> kind, value |-> value, rowCount |-> rowCount,
                                error |-> error]]

Return(p, kind, value, error) == ReturnRows(p, kind, value, 0, error)

NoRequest == [table |-> <<>>, query |-> <<>>]

NoStatement == [text |-> <<>>, values |-> <<>>]

InitStorage ==
  /\ connections = [i \in {"c1"} |-> [creds |-> "credA"]]
  /\ queryHistory = <<>>
  /\ pools = [i \in {} |-> 0]
  /\ connectionPools = [i \in {} |-> 0]
  /\ pc = [p \in Procs |-> "idle"]
  /\ call = [p \in Procs |-> NoCall]
  /\ local = [p \in Procs |-> Locals0]
  /\ ret = [p \in Procs |-> NoRet]
  /\ quietDeleted = {}

NoExport == [table |-> <<>>, format |-> "none", rows |-> <<>>]

\* A text that may not exist yet: the statement before it is sent, the
\* returned string before the call returns.
NoText == [present |-> FALSE, text |-> <<>>]

\* How exportTableData ended: not yet, with a string, or with a throw.
NoData == [kind |-> "none", text |-> <<>>]

SomeText(t) == [present |-> TRUE, text |-> t]

\* getQueryHistory has not returned.
NoListing == [connectionId |-> "none", rows |-> <<>>]

\* No catalog is being looked at; getTableColumns has not returned.
NoCatalog == [columns |-> {}, constraints |-> {}, usage |-> {}]

NoColumns == [returned |-> FALSE, table |-> "none", rows |-> {}]

InitRoutes ==
  /\ request = NoRequest /\ statement = NoStatement
  /\ exportRequest = NoExport /\ exportStatement = NoText /\ exportData = NoData
  /\ historyTable = <<>> /\ dbClock = 0 /\ listing = NoListing
  /\ catalog = NoCatalog /\ columns = NoColumns

Init == InitStorage /\ InitRoutes

\* The server with two stored connections (a second one was created).
InitPair ==
  /\ connections = [i \in ConnIds |-> [creds |-> "credA"]]
  /\ queryHistory = <<>>
  /\ pools = [i \in {} |-> 0]
  /\ connectionPools = [i \in {} |-> 0]
  /\ pc = [p \in Procs |-> "idle"]
  /\ call = [p \in Procs |-> NoCall]
  /\ local = [p \in Procs |-> Locals0]
  /\ ret = [p \in Procs |-> NoRet]
  /\ quietDeleted = {}
  /\ InitRoutes

\* ============================================================ the registry

\* updateConnection: db.update(connections).set({...connection, updatedAt})
\*                     .where(eq(connections.id, id)).returning()
updateConnection_call(p) ==
  /\ \E id \in ConnIds, c \in Creds :
       /\ Invoke(p, [NoCall EXCEPT !.op = "updateConnection", !.id = id, !.creds = c], Locals0)
  /\ pc' = [pc EXCEPT ![p] = "updateConnection:update"]
  /\ UNCHANGED <<connections, queryHistory, pools, connectionPools, ret, quietDeleted>>
  /\ UNCHANGED routeVars

\* What updateConnection hands back: the first row of returning(), which is
\* undefined when the WHERE clause matched no row.
UpdateOutcome(rows) ==
  IF rows = <<>> THEN [kind |-> "ok", value |-> "undefined", error |-> NullError]
  ELSE [kind |-> "ok", value |-> rows[1], error |-> NullError]

updateConnection_update(p) ==
  /\ pc[p] = "updateConnection:update"
  /\ LET id == call[p].id
         rows == IF MapHas(connections, id) THEN <<id>> ELSE <<>>
         out == UpdateOutcome(rows)
     IN
       /\ connections' = IF MapHas(connections, id)
                         THEN MapSet(connections, id, [creds |-> call[p].creds])
                         ELSE connections
       /\ local' = [local EXCEPT
                      ![p].conn = IF rows = <<>> THEN "undefined" ELSE "found",
                      ![p].evicted = IF /\ rows # <<>>
                                        /\ connections[id].creds # call[p].creds
                                        /\ MapHas(connectionPools, id)
                                     THEN connectionPools[id] ELSE 0]
       /\ Return(p, out.kind, out.value, out.error)
  /\ UNCHANGED <<queryHistory, pools, connectionPools, call, quietDeleted>>
  /\ UNCHANGED routeVars

\* Mutant of EvictPool: deleteConnection forgets to drop the map entry.
EvictPoolForgotten(m, id) == m

\* Mutant of EvictPool: deleteConnection empties the whole pool map.
EvictPoolAll(m, id) == [i \in {} |-> 0]

\* this.connectionPools.delete(id)
EvictPool(m, id) == MapDelete(m, id)

\* deleteConnection, up to its await.
deleteConnection_call(p) ==
  /\ \E id \in ConnIds :
       LET evicted == IF MapHas(connectionPools, id) THEN connectionPools[id] ELSE 0 IN
       /\ Invoke(p, [NoCall EXCEPT !.op = "deleteConnection", !.id = id],
                 [Locals0 EXCEPT !.evicted = evicted, !.alone = (Running = {})])
       /\ connectionPools' = EvictPool(connectionPools, id)
  /\ pc' = [pc EXCEPT ![p] = "deleteConnection:delete"]
  /\ UNCHANGED <<connections, queryHistory, pools, ret, quietDeleted>>
  /\ UNCHANGED routeVars

\* query_history.connection_id REFERENCES connections(id), no ON DELETE rule:
\* the row cannot be deleted while a history row points at it.
Referenced(id) == \E i \in DOMAIN queryHistory : queryHistory[i].connectionId = id

\* Mutant of deleteConnection_delete: the history rows of the connection are
\* deleted with it (a foreign key with ON DELETE CASCADE).
deleteConnection_delete_cascade(p) ==
  /\ pc[p] = "deleteConnection:delete"
  /\ LET id == call[p].id
         kept(row) == row.connectionId # id
     IN
       /\ queryHistory' = SelectSeq(queryHistory, kept)
       /\ connections' = MapDelete(connections, id)
       /\ quietDeleted' = IF local[p].alone THEN quietDeleted \cup {id} ELSE quietDeleted
       /\ Return(p, "ok", "undefined", NullError)
  /\ UNCHANGED <<pools, connectionPools, call, local>>
  /\ UNCHANGED routeVars

\* await db.delete(connections).where(eq(connections.id, id))
deleteConnection_delete(p) ==
  /\ pc[p] = "deleteConnection:delete"
  /\ LET id == call[p].id IN
       \/ /\ MapHas(connections, id) /\ Referenced(id)
          /\ Return(p, "error", "none", ForeignKeyMessage)
          /\ UNCHANGED <<connections, quietDeleted>>
       \/ /\ ~(MapHas(connections, id) /\ Referenced(id))
          /\ connections' = MapDelete(connections, id)
          /\ quietDeleted' = IF local[p].alone THEN quietDeleted \cup {id} ELSE quietDeleted
          /\ Return(p, "ok", "undefined", NullError)
  /\ UNCHANGED <<queryHistory, pools, connectionPools, call, local>>
  /\ UNCHANGED routeVars

\* ======================================================== the pool manager

\* Mutant of testConnection_call: the throwaway pool is cached in the map under
\* the id of a stored connection that has the tested credentials.
testConnection_call_cached(p) ==
  /\ \E c \in Creds :
       /\ Invoke(p, [NoCall EXCEPT !.op = "testConnection", !.creds = c],
                 [Locals0 EXCEPT !.issued = 1])
       /\ LET same == {i \in DOMAIN connections : connections[i].creds = c} IN
            IF same = {} THEN UNCHANGED <<pools, connectionPools>>
            ELSE LET id == CHOOSE i \in same : TRUE IN
                   /\ connectionPools' = MapSet(connectionPools, id, FreshRef(pools))
                   /\ pools' = MapSet(pools, FreshRef(pools), NewPool(c, id))
  /\ pc' = [pc EXCEPT ![p] = "testConnection:query"]
  /\ UNCHANGED <<connections, queryHistory, ret, quietDeleted>>
  /\ UNCHANGED routeVars

\* testConnection, up to its first await: new Pool(...); pool.query('SELECT 1').
\* The pool is a local of the call (local.ended is whether it was ended).
testConnection_call(p) ==
  /\ \E c \in Creds :
       Invoke(p, [NoCall EXCEPT !.op = "testConnection", !.creds = c],
              [Locals0 EXCEPT !.issued = 1])
  /\ pc' = [pc EXCEPT ![p] = "testConnection:query"]
  /\ UNCHANGED <<connections, queryHistory, pools, connectionPools, ret, quietDeleted>>
  /\ UNCHANGED routeVars

\* await pool.query('SELECT 1') settles: on success pool.end() is called,
\* on failure the catch block returns false.
testConnection_query(p) ==
  /\ pc[p] = "testConnection:query"
  /\ \/ /\ pc' = [pc EXCEPT ![p] = "testConnection:end"]
        /\ local' = [local EXCEPT ![p].remote = "ok"]
        /\ UNCHANGED ret
     \/ /\ \E m \in EngineMessages :
             local' = [local EXCEPT ![p].remote = "fail", ![p].error = m]
        /\ Return(p, "ok", "false", NullError)
  /\ UNCHANGED <<connections, queryHistory, pools, connectionPools, call, quietDeleted>>
  /\ UNCHANGED routeVars

\* await pool.end() settles; return true
testConnection_end(p) ==
  /\ pc[p] = "testConnection:end"
  /\ local' = [local EXCEPT ![p].ended = TRUE]
  /\ Return(p, "ok", "true", NullError)
  /\ UNCHANGED <<connections, queryHistory, pools, connectionPools, call, quietDeleted>>
  /\ UNCHANGED routeVars

\* Tasks suspended in getConnectionPool at  await this.getConnection(id)  for id.
Suspended(id) == {q \in Procs : pc[q] \in {"getConnection", "lookedUp"} /\ call[q].id = id}

\* Calls in flight that may still insert a history row.
MayInsert == {q \in Procs : call[q].op = "executeQuery" /\ pc[q] \notin {"idle", "done"}}

\* Any of the six operations that start with
\*   const pool = await this.getConnectionPool(connectionId)
\* up to the first await: the has() test of getConnectionPool.
getConnectionPool_call(p) ==
  /\ \E op \in PoolOps, id \in ConnIds,
        q \in {b.text : b \in {b \in Bodies : QueryRouteAccepts(b)}} :
       /\ op = "executeQuery" => Len(queryHistory) + Cardinality(MayInsert) < MaxHistory
       /\ IF MapHas(connectionPools, id)
          THEN /\ Invoke(p, [NoCall EXCEPT !.op = op, !.id = id,
                               !.query = IF op = "executeQuery" THEN q ELSE "none"],
                         [Locals0 EXCEPT !.pool = connectionPools[id]])
               /\ pc' = [pc EXCEPT ![p] = "acquired"]
          ELSE /\ Invoke(p, [NoCall EXCEPT !.op = op, !.id = id,
                               !.query = IF op = "executeQuery" THEN q ELSE "none"],
                         [Locals0 EXCEPT !.rivals = Suspended(id)])
               /\ pc' = [pc EXCEPT ![p] = "getConnection"]
  /\ UNCHANGED <<connections, queryHistory, pools, connectionPools, ret, quietDeleted>>
  /\ UNCHANGED routeVars

\* Mutant of getConnection: an id without a record yields a default record.
getConnectionFallback(id) ==
  IF MapHas(connections, id) THEN connections[id].creds ELSE "credA"

\* getConnection: db.select().from(connections).where(eq(connections.id, id))
\* reads the table; the row (or undefined) is what the continuation will see.
getConnection(id) == IF MapHas(connections, id) THEN connections[id].creds ELSE "undefined"

getConnectionPool_lookup(p) ==
  /\ pc[p] = "getConnection"
  /\ local' = [local EXCEPT ![p].conn = getConnection(call[p].id)]
  /\ pc' = [pc EXCEPT ![p] = "lookedUp"]
  /\ UNCHANGED <<connections, queryHistory, pools, connectionPools, call, ret,
                 quietDeleted>>
  /\ UNCHANGED routeVars

\* The continuation of getConnectionPool after the await, run to its return:
\* throw when there is no record, else new Pool, set, get.
getConnectionPool_resume(p) ==
  /\ pc[p] = "lookedUp"
  /\ \/ /\ local[p].conn = "undefined"
        /\ Return(p, "error", "none", NotFoundMessage)
        /\ UNCHANGED <<pools, connectionPools, local>>
     \/ /\ local[p].conn # "undefined"
        /\ connectionPools' = MapSet(connectionPools, call[p].id, FreshRef(pools))
        /\ local' = [local EXCEPT ![p].pool = connectionPools'[call[p].id]]
        /\ pools' = Collect(MapSet(pools, FreshRef(pools), NewPool(local[p].conn, call[p].id)),
                            connectionPools', local')
        /\ pc' = [pc EXCEPT ![p] = "acquired"]
        /\ UNCHANGED ret
  /\ UNCHANGED <<connections, queryHistory, call, quietDeleted>>
  /\ UNCHANGED routeVars

\* ====================================================== the query executor

\* pool.query(...) is called: the statement is submitted to the pool.
pool_query(p) ==
  /\ pc[p] = "acquired"
  /\ local' = [local EXCEPT ![p].issued = @ + 1]
  /\ pc' = [pc EXCEPT ![p] = "query"]
  /\ UNCHANGED <<connections, queryHistory, pools, connectionPools, call, ret,
                 quietDeleted>>
  /\ UNCHANGED routeVars

\* Time passes while  await pool.query(query)  of executeQuery is pending: the
\* statement has now run for longer than the configured execution timeout.
\* Neither the Pool options nor executeQuery set a timeout or a timer, so
\* nothing in the program reacts.
statement_overdue(p) ==
  /\ pc[p] = "query"
  /\ call[p].op = "executeQuery"
  /\ ~local[p].overdue
  /\ local' = [local EXCEPT ![p].overdue = TRUE]
  /\ UNCHANGED <<connections, queryHistory, pools, connectionPools, pc, call, ret,
                 quietDeleted>>
  /\ UNCHANGED routeVars

\* The ways the remote engine can settle a statement sent through a pool:
\* a result with a (possibly absent) row count, or a rejection with a message.
\* A pool that was ended only rejects.
RemoteOutcomes(pool) ==
  {[ok |-> FALSE, rowCount |-> Null, message |-> m] : m \in EngineMessages}
  \cup (IF pools[pool].ended THEN {}
        ELSE {[ok |-> TRUE, rowCount |-> n, message |-> NullError] : n \in RowCounts})

\* Mutant of executeQuery_settle: a rejected statement is submitted again.
executeQuery_settle_retry(p) ==
  /\ pc[p] = "query"
  /\ call[p].op = "executeQuery"
  /\ \E o \in RemoteOutcomes(local[p].pool) :
       /\ local' = [local EXCEPT ![p].remote = IF o.ok THEN "ok" ELSE "fail",
                                 ![p].rowCount = o.rowCount,
                                 ![p].error = o.message,
                                 ![p].issued = IF o.ok THEN @ ELSE @ + 1]
       /\ pc' = [pc EXCEPT ![p] = IF o.ok THEN "saveQueryHistory:success" ELSE "query"]
  /\ UNCHANGED <<connections, queryHistory, pools, connectionPools, call, ret,
                 quietDeleted>>
  /\ UNCHANGED routeVars

\* getDatabases, getTables, getTableColumns, getTableData, exportTableData:
\* the awaited pool.query settles; a result is mapped and returned, a
\* rejection propagates. None of them touches the history.
systemQuery_settle(p) ==
  /\ pc[p] = "query"
  /\ call[p].op # "executeQuery"
  /\ \E o \in RemoteOutcomes(local[p].pool) :
       /\ local' = [local EXCEPT ![p].remote = IF o.ok THEN "ok" ELSE "fail",
                                 ![p].rowCount = o.rowCount,
                                 ![p].error = o.message]
       /\ IF o.ok
          THEN ReturnRows(p, "ok", "rows", OrZero(o.rowCount), NullError)
          ELSE Return(p, "error", "none", o.message)
  /\ UNCHANGED <<connections, queryHistory, pools, connectionPools, call,
                 quietDeleted>>
  /\ UNCHANGED routeVars

\* executeQuery: await pool.query(query) settles inside the try block; the
\* next thing either branch does is call saveQueryHistory.
executeQuery_settle(p) ==
  /\ pc[p] = "query"
  /\ call[p].op = "executeQuery"
  /\ \E o \in RemoteOutcomes(local[p].pool) :
       /\ local' = [local EXCEPT ![p].remote = IF o.ok THEN "ok" ELSE "fail",
                                 ![p].rowCount = o.rowCount,
                                 ![p].error = o.message]
       /\ pc' = [pc EXCEPT ![p] = IF o.ok THEN "saveQueryHistory:success"
                                  ELSE "saveQueryHistory:failure"]
  /\ UNCHANGED <<connections, queryHistory, pools, connectionPools, call, ret,
                 quietDeleted>>
  /\ UNCHANGED routeVars

\* The insert of saveQueryHistory is accepted only if connection_id points
\* at a row of connections.
InsertAccepted(connectionId) == MapHas(connections, connectionId)

\* The errors with which the local database answers the insert of
\* saveQueryHistory while it is up: the foreign key when connection_id points
\* at no row.
InsertRejections(connectionId) ==
  IF InsertAccepted(connectionId) THEN {} ELSE {ForeignKeyMessage}

\* The errors of an insert that does not reach the local database.
LocalDbMessages == {"connection terminated"}

\* The row saveQueryHistory is asked to insert on the success path.
SuccessEntry(connectionId, query, rowCount) ==
  [connectionId |-> connectionId, query |-> query, rowsAffected |-> OrZero(rowCount),
   success |-> TRUE, error |-> NullError]

\* The row saveQueryHistory is asked to insert in the catch block.
FailureEntry(connectionId, query, errorMessage) ==
  [connectionId |-> connectionId, query |-> query, rowsAffected |-> 0,
   success |-> FALSE, error |-> errorMessage]

\* saveQueryHistory: db.insert(queryHistory).values(history).returning()
saveQueryHistory(h, entry) == Append(h, entry)

\* The try block after the statement succeeded: await saveQueryHistory(...),
\* then return the result; a rejected insert is caught by the same catch.
executeQuery_saveSuccess(p) ==
  /\ pc[p] = "saveQueryHistory:success"
  /\ \/ /\ InsertAccepted(call[p].id)
        /\ queryHistory' = saveQueryHistory(queryHistory,
                              SuccessEntry(call[p].id, call[p].query, local[p].rowCount))
        /\ local' = [local EXCEPT ![p].saved = Append(@, Len(queryHistory'))]
        /\ ReturnRows(p, "ok", "rows", OrZero(local[p].rowCount), NullError)
     \/ /\ \E m \in InsertRejections(call[p].id) :
             local' = [local EXCEPT ![p].error = m]
        /\ pc' = [pc EXCEPT ![p] = "saveQueryHistory:failure"]
        /\ UNCHANGED <<queryHistory, ret>>
  /\ UNCHANGED <<connections, pools, connectionPools, call, quietDeleted>>
  /\ UNCHANGED routeVars

\* The catch block: await saveQueryHistory({... success: false, error}), then
\* throw error; a rejected insert throws out of the catch block instead.
executeQuery_saveFailure(p) ==
  /\ pc[p] = "saveQueryHistory:failure"
  /\ \/ /\ InsertAccepted(call[p].id)
        /\ queryHistory' = saveQueryHistory(queryHistory,
                              FailureEntry(call[p].id, call[p].query, local[p].error))
        /\ local' = [local EXCEPT ![p].saved = Append(@, Len(queryHistory'))]
        /\ Return(p, "error", "none", local[p].error)
     \/ /\ \E m \in InsertRejections(call[p].id) :
             Return(p, "error", "none", m)
        /\ UNCHANGED <<queryHistory, local>>
  /\ UNCHANGED <<connections, pools, connectionPools, call, quietDeleted>>
  /\ UNCHANGED routeVars

\* await saveQueryHistory(...) rejected because the local database cannot be
\* reached: in the try block the catch takes over with that error, in the
\* catch block the error leaves executeQuery.
saveQueryHistory_unavailable(p) ==
  /\ \E m \in LocalDbMessages :
       \/ /\ pc[p] = "saveQueryHistory:success"
          /\ local' = [local EXCEPT ![p].error = m]
          /\ pc' = [pc EXCEPT ![p] = "saveQueryHistory:failure"]
          /\ UNCHANGED ret
       \/ /\ pc[p] = "saveQueryHistory:failure"
          /\ Return(p, "error", "none", m)
          /\ UNCHANGED local
  /\ UNCHANGED <<connections, queryHistory, pools, connectionPools, call, quietDeleted>>
  /\ UNCHANGED routeVars

\* ================================================================ the routes

\* What a route handler sends for a storage call that ended as r: res.json of
\* the value, or its catch block's status 500 (the query route passes the
\* error's message on, the others send a fixed text).
RouteResponse(c, r) ==
  IF r.kind = "ok" THEN [status |-> 200, error |-> NullError]
  ELSE IF r.kind = "badRequest" THEN [status |-> 400, error |-> r.error]
  ELSE [status |-> 500,
        error |-> IF c.op = "executeQuery" THEN r.error ELSE "Failed"]

\* POST /api/connections/:id/query with a body the route does not accept:
\* res.status(400).json({ error: "Query is required" }); return
queryRoute_reject(p) ==
  /\ \E id \in ConnIds, b \in Bodies :
       /\ ~QueryRouteAccepts(b)
       /\ Invoke(p, [NoCall EXCEPT !.op = "queryRoute", !.id = id, !.query = b.text],
                 Locals0)
  /\ pc' = [pc EXCEPT ![p] = "done"]
  /\ ret' = [ret EXCEPT ![p] = [NoRet EXCEPT !.kind = "badRequest",
                                             !.error = "Query is required"]]
  /\ UNCHANGED <<connections, queryHistory, pools, connectionPools, quietDeleted>>
  /\ UNCHANGED routeVars

\* The handler sends its response and is gone; its locals die with it.
respond(p) ==
  /\ pc[p] = "done"
  /\ pc' = [pc EXCEPT ![p] = "idle"]
  /\ call' = [call EXCEPT ![p] = NoCall]
  /\ local' = [q \in Procs |-> IF q = p THEN Locals0
                               ELSE [local[q] EXCEPT !.rivals = @ \ {p}]]
  /\ ret' = [ret EXCEPT ![p] = NoRet]
  /\ pools' = Collect(pools, connectionPools, local')
  /\ UNCHANGED <<connections, queryHistory, connectionPools, quietDeleted>>
  /\ UNCHANGED routeVars

\* ============================================================ the data route
\* Text is a sequence of characters, so that splicing a value into a
\* statement and binding it as a parameter are different things.

Digits == <<"0", "1", "2", "3", "4", "5", "6", "7", "8", "9">>
IsDigit(c) == \E i \in DOMAIN Digits : Digits[i] = c
DigitValue(c) == (CHOOSE i \in DOMAIN Digits : Digits[i] = c) - 1

\* parseInt on a string: the value of the longest prefix of decimal digits,
\* NaN when there is none.
RECURSIVE ParseDigits(_, _)
ParseDigits(str, acc) ==
  IF str = <<>> \/ ~IsDigit(Head(str)) THEN acc
  ELSE ParseDigits(Tail(str), acc * 10 + DigitValue(Head(str)))

ParseInt(str) == IF str = <<>> \/ ~IsDigit(Head(str)) THEN "NaN" ELSE ParseDigits(str, 0)

\* `${n}` for a non-negative integer n.
RECURSIVE NumberText(_)
NumberText(n) ==
  IF n < 10 THEN <<Digits[n + 1]>>
  ELSE NumberText(n \div 10) \o <<Digits[(n % 10) + 1]>>

\* Array.prototype.join
RECURSIVE Join(_, _)
Join(parts, sep) ==
  IF parts = <<>> THEN <<>>
  ELSE IF Len(parts) = 1 THEN parts[1]
  ELSE parts[1] \o sep \o Join(Tail(parts), sep)

\* The literal fragments of the templates of getTableData.
TextSelectFrom == <<"S", "E", "L", "E", "C", "T", " ", "*", " ", "F", "R", "O", "M", " ">>
TextSpace == <<" ">>
TextLimitOffset == <<" ", "L", "I", "M", "I", "T", " ", "$", "1", " ", "O", "F", "F", "S", "E", "T", " ", "$", "2">>
TextWhere == <<"W", "H", "E", "R", "E", " ">>
TextAnd == <<" ", "A", "N", "D", " ">>
TextIlike == <<":", ":", "t", "e", "x", "t", " ", "I", "L", "I", "K", "E", " ", "$">>
TextPercent == <<"%">>

\* Query-string keys and values of the bounded request space.
KeyOffset == <<"o", "f", "f", "s", "e", "t">>
KeyLimit == <<"l", "i", "m", "i", "t">>
KeySearch == <<"s", "e", "a", "r", "c", "h">>
KeyColumn == <<"c", "o", "l", "u", "m", "n">>
KeySort == <<"s", "o", "r", "t">>
TextAdmin == <<"a", "d", "m", "i", "n">>
TextUsername == <<"u", "s", "e", "r", "n", "a", "m", "e">>
TextUsers == <<"u", "s", "e", "r", "s">>
TextAudit == <<"a", "u", "d", "i", "t">>
TextName == <<"n", "a", "m", "e">>
TextId == <<"i", "d">>
TextEmpty == <<>>

\* The route's defaults  offset = 0, limit = 25  as parseInt reads them.
DefaultOffset == <<"0">>
DefaultLimit == <<"2", "5">>

\* req.query[key], "undefined" when the key is absent.
Lookup(query, key) ==
  IF \E i \in DOMAIN query : query[i][1] = key
  THEN query[CHOOSE i \in DOMAIN query : query[i][1] = key][2]
  ELSE "undefined"

HasKey(query, key) == \E i \in DOMAIN query : query[i][1] = key

\* const { offset = 0, limit = 25, ...filters } = req.query
RouteOffset(query) == IF HasKey(query, KeyOffset) THEN Lookup(query, KeyOffset) ELSE DefaultOffset

RouteLimit(query) == IF HasKey(query, KeyLimit) THEN Lookup(query, KeyLimit) ELSE DefaultLimit

IsFilterKey(pair) == pair[1] # KeyOffset /\ pair[1] # KeyLimit

RouteFilters(query) == SelectSeq(query, IsFilterKey)

\* .filter(([_, value]) => value !== undefined && value !== '')
IsNonEmptyFilter(pair) == pair[2] # TextEmpty

\* Mutant of Condition: the filter value is written into the statement text.
ConditionInline(pair, paramCount) ==
  pair[1] \o <<":", ":", "t", "e", "x", "t", " ", "I", "L", "I", "K", "E", " ", "'", "%">>
          \o pair[2] \o <<"%", "'">>

\* The i-th condition: paramCount++; values.push(`%${value}%`);
\* `${key}::text ILIKE $${paramCount}`
Condition(pair, paramCount) == pair[1] \o TextIlike \o NumberText(paramCount)

BoundValue(pair) == TextPercent \o pair[2] \o TextPercent

\* getTableData from  let whereClause = ''  to the arguments of pool.query:
\* the statement text and the values array.
getTableData(table, offset, limit, filters) ==
  LET kept == SelectSeq(filters, IsNonEmptyFilter)
      conditions == [i \in DOMAIN kept |-> Condition(kept[i], 2 + i)]
      whereClause == IF Len(conditions) > 0 THEN TextWhere \o Join(conditions, TextAnd)
                     ELSE TextEmpty
  IN [text |-> TextSelectFrom \o table \o TextSpace \o whereClause \o TextLimitOffset,
      values |-> <<limit, offset>> \o [i \in DOMAIN kept |-> BoundValue(kept[i])]]

\* The remote database's catalog as getTables and getTableColumns list it
\* for the connection: one table, users(id, username, name).
CatalogTables == {TextUsers}

CatalogColumns(table) ==
  IF table = TextUsers THEN {TextId, TextUsername, TextName} ELSE {}

\* The :table segment of the URL is any text the client puts there.
RequestTables == {TextUsers, TextAudit}

\* The query strings the client can send: each key present or absent, in
\* the order the client appends them.
Optional(key, vals) == {<<>>} \cup {<<<<key, v>>>> : v \in vals}

Requests ==
  {[table |-> t, query |-> o \o l \o s \o c \o r] :
     t \in RequestTables,
     o \in Optional(KeyOffset, {<<"0">>, <<"1", "0">>}),
     l \in Optional(KeyLimit, {<<"5", "0">>}),
     s \in Optional(KeySearch, {TextEmpty, TextAdmin}),
     c \in Optional(KeyColumn, {TextEmpty, TextUsername}),
     r \in Optional(KeySort, {TextId})}

\* GET /api/connections/:id/databases/:database/tables/:table/data arrives.
dataRoute_request ==
  /\ request = NoRequest
  /\ request' \in Requests
  /\ statement' = NoStatement
  /\ UNCHANGED <<storageVars, exportVars, historyVars, columnsVars>>

\* The handler destructures req.query and calls storage.getTableData, which
\* builds the statement it passes to pool.query.
dataRoute_getTableData ==
  /\ request # NoRequest
  /\ statement = NoStatement
  /\ statement' = getTableData(request.table,
                               ParseInt(RouteOffset(request.query)),
                               ParseInt(RouteLimit(request.query)),
                               RouteFilters(request.query))
  /\ UNCHANGED <<request, storageVars, exportVars, historyVars, columnsVars>>

\* The response is sent; the next request may arrive.
dataRoute_respond ==
  /\ statement # NoStatement
  /\ request' = NoRequest
  /\ statement' = NoStatement
  /\ UNCHANGED <<storageVars, exportVars, historyVars, columnsVars>>

\* ========================================================== the export route
\* Upper bound on the rows the exported table holds.
MaxExportRows == 2

Comma == <<",">>
Quote == <<"\"">>
Newline == <<"\n">>
Backslash == <<"\\">>

\* String.prototype.includes
Includes(str, pat) ==
  \E i \in 1..(Len(str) - Len(pat) + 1) : SubSeq(str, i, i + Len(pat) - 1) = pat

\* str.replace(/c/g, by) for a one-character pattern c
RECURSIVE ReplaceAll(_, _, _)
ReplaceAll(str, c, by) ==
  IF str = <<>> THEN <<>>
  ELSE (IF Head(str) = c THEN by ELSE <<Head(str)>>) \o ReplaceAll(Tail(str), c, by)

\* A column value of a result row: null, a number or a string, with the text
\* String(value) gives for it.
NullValue == [type |-> "null", text |-> <<"n", "u", "l", "l">>]
NumberValue(t) == [type |-> "number", text |-> t]
StringValue(t) == [type |-> "string", text |-> t]

String(value) == value.text

\* Mutant of CsvField: a field that needs quoting is wrapped in double quotes
\* but its internal double quotes are left single.
CsvFieldNoDoubling(value) ==
  IF value.type = "null" THEN TextEmpty
  ELSE LET stringValue == String(value) IN
         IF \/ Includes(stringValue, Comma)
            \/ Includes(stringValue, Quote)
            \/ Includes(stringValue, Newline)
         THEN Quote \o stringValue \o Quote
         ELSE stringValue

\* One field of a CSV data line (the callback of headers.map).
CsvField(value) ==
  IF value.type = "null" THEN TextEmpty
  ELSE LET stringValue == String(value) IN
         IF \/ Includes(stringValue, Comma)
            \/ Includes(stringValue, Quote)
            \/ Includes(stringValue, Newline)
         THEN Quote \o ReplaceAll(stringValue, "\"", Quote \o Quote) \o Quote
         ELSE stringValue

\* Object.keys(row)
ObjectKeys(row) == [i \in DOMAIN row |-> row[i][1]]

\* Mutant of CsvExport: the header line is written from the table's column
\* list also when there is no row.
CsvExportHeaderAlways(rows) ==
  LET headers == <<TextId, TextName>>
      values(row) == [h \in DOMAIN headers |-> CsvField(Lookup(row, headers[h]))]
      csvRows == <<Join(headers, Comma)>>
                 \o [i \in DOMAIN rows |-> Join(values(rows[i]), Comma)]
  IN Join(csvRows, Newline)

\* The CSV branch of exportTableData.
CsvExport(rows) ==
  IF Len(rows) = 0 THEN TextEmpty
  ELSE LET headers == ObjectKeys(rows[1])
           values(row) == [h \in DOMAIN headers |-> CsvField(Lookup(row, headers[h]))]
           csvRows == <<Join(headers, Comma)>>
                      \o [i \in DOMAIN rows |-> Join(values(rows[i]), Comma)]
       IN Join(csvRows, Newline)

\* JSON.stringify(value, null, 2) on an array of flat objects.
Indent(n) == [i \in 1..n |-> " "]

JsonString(str) ==
  Quote \o ReplaceAll(ReplaceAll(ReplaceAll(str, "\\", Backslash \o Backslash),
                                 "\"", Backslash \o Quote),
                      "\n", Backslash \o <<"n">>)
        \o Quote

JsonValue(value) ==
  IF value.type = "string" THEN JsonString(value.text) ELSE value.text

JsonObject(row) ==
  IF row = <<>> THEN <<"{", "}">>
  ELSE <<"{">> \o Newline
       \o Join([i \in DOMAIN row |->
                  Indent(4) \o JsonString(row[i][1]) \o <<":", " ">> \o JsonValue(row[i][2])],
               Comma \o Newline)
       \o Newline \o Indent(2) \o <<"}">>

JsonStringify(rows) ==
  IF rows = <<>> THEN <<"[", "]">>
  ELSE <<"[">> \o Newline
       \o Join([i \in DOMAIN rows |-> Indent(2) \o JsonObject(rows[i])], Comma \o Newline)
       \o Newline \o <<"]">>

\* exportTableData after result = await pool.query(`SELECT * FROM ${table}`)
exportTableData(rows, format) ==
  IF format = "json" THEN [kind |-> "ok", text |-> JsonStringify(rows)]
  ELSE [kind |-> "ok", text |-> CsvExport(rows)]

\* The values of the name column of the bounded tables, and their rows.
NameValues ==
  {NullValue, StringValue(<<"o", "k">>), StringValue(<<"A", ",", "B">>),
   StringValue(<<"a", "\"", "b">>), StringValue(<<"x", "\n", "y">>)}

ExportRows == {<<<<TextId, NumberValue(<<"1">>)>>, <<TextName, v>>>> : v \in NameValues}

Formats == {"csv", "json"}

\* The export requests: the table named in the URL, the format, and the rows
\* SELECT * returns for the table (a table the database does not have has no
\* rows to return).
ExportRequests ==
  {[table |-> TextUsers, format |-> f, rows |-> r] :
     f \in Formats, r \in UNION {[1..n -> ExportRows] : n \in 0..MaxExportRows}}
  \cup {[table |-> t, format |-> f, rows |-> <<>>] :
          t \in RequestTables \ CatalogTables, f \in Formats}

\* GET /api/connections/:id/databases/:database/tables/:table/export arrives.
exportRoute_request ==
  /\ exportRequest = NoExport
  /\ exportRequest' \in ExportRequests
  /\ exportStatement' = NoText
  /\ exportData' = NoData
  /\ UNCHANGED <<storageVars, browseVars, historyVars, columnsVars>>

\* exportTableData hands `SELECT * FROM ${table}` to pool.query.
exportRoute_query ==
  /\ exportRequest # NoExport
  /\ exportStatement = NoText
  /\ exportStatement' = SomeText(TextSelectFrom \o exportRequest.table)
  /\ UNCHANGED <<exportRequest, exportData, storageVars, browseVars, historyVars, columnsVars>>

\* The statement settles: the database rejects it when it has no such table,
\* else exportTableData formats the rows and returns the string.
exportRoute_exportTableData ==
  /\ exportStatement # NoText
  /\ exportData = NoData
  /\ exportData' = IF exportRequest.table \in CatalogTables
                   THEN exportTableData(exportRequest.rows, exportRequest.format)
                   ELSE [kind |-> "error", text |-> TextEmpty]
  /\ UNCHANGED <<exportRequest, exportStatement, storageVars, browseVars, historyVars, columnsVars>>

\* res.send(data) or the catch block's status 500; the next request may arrive.
exportRoute_respond ==
  /\ exportData # NoData
  /\ exportRequest' = NoExport
  /\ exportStatement' = NoText
  /\ exportData' = NoData
  /\ UNCHANGED <<storageVars, browseVars, historyVars, columnsVars>>

BrowseNext ==
  \/ dataRoute_request
  \/ dataRoute_getTableData
  \/ dataRoute_respond
  \/ exportRoute_request
  \/ exportRoute_query
  \/ exportRoute_exportTableData
  \/ exportRoute_respond

BrowseSpec == Init /\ [][BrowseNext]_vars

\* ========================================================= the history route
\* Upper bound on the rows of query_history in the history route's behaviours.
MaxHistoryRows == 3

\* The row the insert of saveQueryHistory stores: id gets a fresh key and
\* created_at the database's now().
StoredRow(table, connectionId, now) ==
  [id |-> Len(table) + 1, connectionId |-> connectionId, createdAt |-> now]

\* The database clock moves on. (A reading nobody stored need not be told
\* apart from the next one.)
history_tick ==
  /\ historyTable # <<>>
  /\ historyTable[Len(historyTable)].createdAt = dbClock
  /\ dbClock' = dbClock + 1
  /\ UNCHANGED <<historyTable, listing, storageVars, browseVars, exportVars, columnsVars>>

\* An executeQuery records its statement: the insert of saveQueryHistory.
history_saveQueryHistory ==
  /\ Len(historyTable) < MaxHistoryRows
  /\ \E id \in ConnIds :
       /\ InsertAccepted(id)
       /\ historyTable' = Append(historyTable, StoredRow(historyTable, id, dbClock))
  /\ UNCHANGED <<dbClock, listing, storageVars, browseVars, exportVars, columnsVars>>

\* Mutant of getQueryHistory: the rows come back newest first.
getQueryHistoryDescending(table, connectionId) ==
  LET rows == {table[i] : i \in {j \in DOMAIN table : table[j].connectionId = connectionId}}
      n == Cardinality(rows)
  IN {s \in [1..n -> rows] :
        /\ \A i, j \in 1..n : i # j => s[i] # s[j]
        /\ \A i \in 1..(n - 1) : s[i].createdAt >= s[i + 1].createdAt}

\* getQueryHistory: select().from(queryHistory)
\*   .where(eq(queryHistory.connectionId, connectionId)).orderBy(queryHistory.createdAt)
\* The results the database may give: the matching rows in any order that is
\* ascending in created_at (ORDER BY leaves the order of equal keys open).
getQueryHistory(table, connectionId) ==
  LET rows == {table[i] : i \in {j \in DOMAIN table : table[j].connectionId = connectionId}}
      n == Cardinality(rows)
  IN {s \in [1..n -> rows] :
        /\ \A i, j \in 1..n : i # j => s[i] # s[j]
        /\ \A i \in 1..(n - 1) : s[i].createdAt <= s[i + 1].createdAt}

\* GET /api/connections/:id/history: the handler awaits getQueryHistory(id).
historyRoute_getQueryHistory ==
  /\ listing = NoListing
  /\ \E id \in ConnIds : \E rows \in getQueryHistory(historyTable, id) :
       listing' = [connectionId |-> id, rows |-> rows]
  /\ UNCHANGED <<historyTable, dbClock, storageVars, browseVars, exportVars, columnsVars>>

\* res.json(history)
historyRoute_respond ==
  /\ listing # NoListing
  /\ listing' = NoListing
  /\ UNCHANGED <<historyTable, dbClock, storageVars, browseVars, exportVars, columnsVars>>

HistoryNext ==
  \/ history_tick
  \/ history_saveQueryHistory
  \/ historyRoute_getQueryHistory
  \/ historyRoute_respond

HistorySpec == InitPair /\ [][HistoryNext]_vars

\* ========================================================= the columns route
\* Rows of information_schema.columns, .table_constraints, .key_column_usage.
\* A column row carries column_default and generation_expression, SQL NULL
\* when the column has none.
SqlNull == "NULL"

Column(schema, table, name) ==
  [schema |-> schema, table |-> table, name |-> name,
   default |-> SqlNull, generation |-> SqlNull]

\* A column filled from a sequence.
SerialColumn(schema, table, name) ==
  [Column(schema, table, name) EXCEPT !.default = "nextval"]

\* COALESCE(x, y) in the statement; JavaScript's  x || ''  on a nullable text.
Coalesce(x, y) == IF x = SqlNull THEN y ELSE x

OrEmpty(x) == IF x = SqlNull \/ x = "" THEN "" ELSE x

Constraint(name, schema, table, type) ==
  [name |-> name, schema |-> schema, table |-> table, type |-> type]

KeyColumnUsage(constraint, schema, table, column) ==
  [constraint |-> constraint, schema |-> schema, table |-> table, column |-> column]

Merge(a, b) ==
  [columns |-> a.columns \cup b.columns,
   constraints |-> a.constraints \cup b.constraints,
   usage |-> a.usage \cup b.usage]

\* public.users(id, name) with its primary key on pk.
UsersTable(pk) ==
  [columns |-> {Column("public", "users", "id"), Column("public", "users", "name")},
   constraints |-> {Constraint("users_pkey", "public", "users", "PRIMARY KEY")},
   usage |-> {KeyColumnUsage("users_pkey", "public", "users", pk)}]

\* A UNIQUE constraint on public.users.name.
UsersNameKey ==
  [columns |-> {},
   constraints |-> {Constraint("users_name_key", "public", "users", "UNIQUE")},
   usage |-> {KeyColumnUsage("users_name_key", "public", "users", "name")}]

\* public.orders(id, name) with its primary key on name.
OrdersTable ==
  [columns |-> {SerialColumn("public", "orders", "id"), Column("public", "orders", "name")},
   constraints |-> {Constraint("orders_pkey", "public", "orders", "PRIMARY KEY")},
   usage |-> {KeyColumnUsage("orders_pkey", "public", "orders", "name")}]

\* A table users in a second schema, with the columns cols and its primary
\* key on pk (or none); the database names that constraint users_pkey too.
AuditUsersTable(cols, pk) ==
  [columns |-> {Column("audit", "users", n) : n \in cols},
   constraints |-> IF pk = "none" THEN {}
                   ELSE {Constraint("users_pkey", "audit", "users", "PRIMARY KEY")},
   usage |-> IF pk = "none" THEN {}
             ELSE {KeyColumnUsage("users_pkey", "audit", "users", pk)}]

\* The catalogs of the bounded remote databases.
Catalogs ==
  {Merge(Merge(UsersTable(pk), u), Merge(o, a)) :
     pk \in {"id", "name"},
     u \in {NoCatalog, UsersNameKey},
     o \in {NoCatalog, OrdersTable},
     a \in {NoCatalog} \cup UNION {{AuditUsersTable(cols, k) : k \in cols \cup {"none"}} :
                                    cols \in {{"id"}, {"name"}, {"id", "name"}}}}

\* The subquery pk (type 'PRIMARY KEY') or u (type 'UNIQUE') of the statement
\* of getTableColumns: one row per pair of a table_constraints row and a
\* key_column_usage row that
\*   JOIN ... ON tc.constraint_name = ku.constraint_name
\*   WHERE tc.table_name = $1 AND tc.constraint_type = type
\* lets through.
KeySubquery(cat, table, type) ==
  {pair \in cat.constraints \X cat.usage :
     /\ pair[1].name = pair[2].constraint
     /\ pair[1].table = table
     /\ pair[1].type = type}

AtLeastOne(n) == IF n = 0 THEN 1 ELSE n

\* The rows of the statement of getTableColumns as result.rows.map leaves
\* them: for every row c of information_schema.columns with c.table_name = $1
\* the LEFT JOINs give one row per matching row of pk and of u (one row when
\* there is none). source is the catalog row an entry came from and copies
\* the number of equal entries it came as.
getTableColumns(cat, table) ==
  {LET pk == {pair \in KeySubquery(cat, table, "PRIMARY KEY") : pair[2].column = c.name}
       u == {pair \in KeySubquery(cat, table, "UNIQUE") : pair[2].column = c.name}
   IN [source |-> c, name |-> c.name, defaultValue |-> c.default,
       isPrimaryKey |-> pk # {}, isUnique |-> u # {},
       extra |-> OrEmpty(Coalesce(c.generation, "")),
       copies |-> AtLeastOne(Cardinality(pk)) * AtLeastOne(Cardinality(u))] :
   c \in {c \in cat.columns : c.table = table}}

\* The remote database a connection points at has some catalog.
columnsRoute_request ==
  /\ catalog = NoCatalog
  /\ catalog' \in Catalogs
  /\ columns' = NoColumns
  /\ UNCHANGED <<storageVars, browseVars, exportVars, historyVars>>

\* GET .../tables/:table/structure: storage.getTableColumns(id, database, table)
columnsRoute_getTableColumns ==
  /\ catalog # NoCatalog
  /\ ~columns.returned
  /\ \E table \in {"users", "orders"} :
       columns' = [returned |-> TRUE, table |-> table,
                   rows |-> getTableColumns(catalog, table)]
  /\ UNCHANGED <<catalog, storageVars, browseVars, exportVars, historyVars>>

\* res.json(columns)
columnsRoute_respond ==
  /\ columns.returned
  /\ catalog' = NoCatalog
  /\ columns' = NoColumns
  /\ UNCHANGED <<storageVars, browseVars, exportVars, historyVars>>

ColumnsNext ==
  \/ columnsRoute_request
  \/ columnsRoute_getTableColumns
  \/ columnsRoute_respond

ColumnsSpec == Init /\ [][ColumnsNext]_vars

\* ========================================================= the whole system
Next ==
  \E p \in Procs :
    \/ updateConnection_call(p)
    \/ updateConnection_update(p)
    \/ deleteConnection_call(p)
    \/ deleteConnection_delete(p)
    \/ testConnection_call(p)
    \/ testConnection_query(p)
    \/ testConnection_end(p)
    \/ getConnectionPool_call(p)
    \/ getConnectionPool_lookup(p)
    \/ getConnectionPool_resume(p)
    \/ pool_query(p)
    \/ statement_overdue(p)
    \/ systemQuery_settle(p)
    \/ executeQuery_settle(p)
    \/ executeQuery_saveSuccess(p)
    \/ executeQuery_saveFailure(p)
    \/ respond(p)

\* The storage operations over a local database that stays reachable.
Spec == Init /\ [][Next]_vars

\* What the event loop and the local database guarantee to a handler that is
\* under way: a continuation that is ready runs, a local database call
\* settles, a statement the remote engine has accepted settles within the
\* configured timeout. No request is obliged to arrive, and the remote engine
\* owes nothing for a statement that is overdue.
HandlerProgress(p) ==
  \/ updateConnection_update(p)
  \/ deleteConnection_delete(p)
  \/ testConnection_query(p)
  \/ testConnection_end(p)
  \/ getConnectionPool_lookup(p)
  \/ getConnectionPool_resume(p)
  \/ pool_query(p)
  \/ systemQuery_settle(p)
  \/ (~local[p].overdue /\ executeQuery_settle(p))
  \/ executeQuery_saveSuccess(p)
  \/ executeQuery_saveFailure(p)
  \/ respond(p)

FairSpec == Spec /\ \A p \in Procs : WF_vars(HandlerProgress(p))

\* The registry, the pool manager and the catalog queries on a server with
\* two stored connections. (executeQuery differs from a catalog query in its
\* history writes only, testConnection works on no stored connection.)
PairNext ==
  \E p \in Procs :
    \/ updateConnection_call(p)
    \/ updateConnection_update(p)
    \/ deleteConnection_call(p)
    \/ deleteConnection_delete(p)
    \/ (getConnectionPool_call(p) /\ call'[p].op \in SystemOps)
    \/ getConnectionPool_lookup(p)
    \/ getConnectionPool_resume(p)
    \/ pool_query(p)
    \/ systemQuery_settle(p)
    \/ respond(p)

PairSpec == InitPair /\ [][PairNext]_vars

\* The query route: its validation, executeQuery with a local database that
\* may be unreachable when the history is written, and deleteConnection
\* beside it.
QueryNext ==
  \E p \in Procs :
    \/ queryRoute_reject(p)
    \/ (getConnectionPool_call(p) /\ call'[p].op = "executeQuery")
    \/ getConnectionPool_lookup(p)
    \/ getConnectionPool_resume(p)
    \/ pool_query(p)
    \/ statement_overdue(p)
    \/ executeQuery_settle(p)
    \/ executeQuery_saveSuccess(p)
    \/ executeQuery_saveFailure(p)
    \/ saveQueryHistory_unavailable(p)
    \/ deleteConnection_call(p)
    \/ deleteConnection_delete(p)
    \/ respond(p)

QuerySpec == Init /\ [][QueryNext]_vars

\* ================================================================ properties

\* The live (not ended) pools of the heap that were built for id.
LivePools(id) == {i \in DOMAIN pools : pools[i].id = id /\ ~pools[i].ended}

\* C1: first-time acquisitions of one id that run concurrently (one was
\* suspended at its record lookup when the other missed the map, and no
\* deleteConnection(id) came between) all receive the same Pool, and it is
\* the only Pool constructed for the id.
C1_ConcurrentAcquireOnePool ==
  \A p \in Procs : \A q \in local[p].rivals :
    (local[p].pool # 0 /\ local[q].pool # 0)
      => /\ local[p].pool = local[q].pool
         /\ Cardinality({i \in DOMAIN pools : pools[i].id = call[p].id}) = 1

\* C2: in every reachable state each connection id has at most one pool that
\* getConnectionPool constructed for it and that has not been closed.
C2_AtMostOneLivePool == \A id \in ConnIds : Cardinality(LivePools(id)) <= 1

\* A step of task p inside testConnection (its call or one of its awaits).
TestConnectionStep(p) == pc'[p] # pc[p] /\ call'[p].op = "testConnection"

\* C3: no step of testConnection, on its success path or on its failure
\* path, changes the id-keyed pool map.
C3_TestLeavesPoolMap ==
  [][(\E p \in Procs : TestConnectionStep(p)) => connectionPools' = connectionPools]_vars

\* C3 witness: with a pool in the map, one testConnection of a stored
\* connection's credentials has returned true and another has returned false.
C3_Witness ==
  /\ DOMAIN connectionPools # {}
  /\ \E p, q \in Procs :
       /\ pc[p] = "done" /\ call[p].op = "testConnection" /\ ret[p].value = "true"
       /\ \E i \in DOMAIN connections : connections[i].creds = call[p].creds
       /\ pc[q] = "done" /\ call[q].op = "testConnection" /\ ret[q].value = "false"

\* C4: when deleteConnection(id) found a pool in the map, then once it has
\* returned that pool is ended, and (no other request having run meanwhile)
\* the id has no map entry and no live pool.
C4_DeleteClosesPool ==
  \A p \in Procs :
    (pc[p] = "done" /\ call[p].op = "deleteConnection" /\ local[p].evicted # 0)
      => /\ pools[local[p].evicted].ended
         /\ local[p].alone => (~MapHas(connectionPools, call[p].id)
                               /\ LivePools(call[p].id) = {})

\* C5: once deleteConnection(id) has returned normally with no other request
\* in flight during it, every later call that starts with
\* getConnectionPool(id) gets no pool, submits no statement and ends with
\* the error 'Connection not found'.
C5_AcquireAfterDeleteNotFound ==
  \A p \in Procs :
    (call[p].op \in PoolOps /\ call[p].id \in quietDeleted)
      => /\ local[p].pool = 0
         /\ local[p].issued = 0
         /\ pc[p] \in {"getConnection", "lookedUp", "done"}
         /\ pc[p] = "done" => (ret[p].kind = "error" /\ ret[p].error = NotFoundMessage)

\* C5 witness: deleteConnection("c1") found a pool in the map and returned
\* normally, alone; an executeQuery("c1") made afterwards has ended.
C5_Witness ==
  \E p, q \in Procs :
    /\ pc[q] = "done" /\ call[q].op = "deleteConnection" /\ call[q].id = "c1"
    /\ ret[q].kind = "ok" /\ local[q].evicted # 0 /\ "c1" \in quietDeleted
    /\ pc[p] = "done" /\ call[p].op = "executeQuery" /\ call[p].id = "c1"

\* C6: once updateConnection has changed the credentials of a connection
\* that had a pool in the map and has returned, the map no longer holds that
\* pool (so the next getConnectionPool cannot return it).
C6_UpdateInvalidatesPool ==
  \A p \in Procs :
    (pc[p] = "done" /\ call[p].op = "updateConnection" /\ local[p].evicted # 0)
      => ~(/\ MapHas(connectionPools, call[p].id)
           /\ connectionPools[call[p].id] = local[p].evicted)

\* C7: updateConnection with an id that matches no record ends with an
\* error, not with a normal return (the route then does not answer 200).
C7_UpdateUnknownIdFails ==
  \A p \in Procs :
    (pc[p] = "done" /\ call[p].op = "updateConnection" /\ local[p].conn = "undefined")
      => /\ ret[p].kind = "error"
         /\ RouteResponse(call[p], ret[p]).status # 200

\* C8: an executeQuery that submitted its statement has, when it ends, added
\* exactly one history row for its connection id; the row's success flag is
\* true exactly when the statement succeeded and its error is non-null
\* exactly when the statement failed.
C8_ExecuteAddsOneEntry ==
  \A p \in Procs :
    (pc[p] = "done" /\ call[p].op = "executeQuery" /\ local[p].issued > 0)
      => /\ Len(local[p].saved) = 1
         /\ LET e == queryHistory[local[p].saved[1]] IN
              /\ e.connectionId = call[p].id
              /\ e.success = (local[p].remote = "ok")
              /\ (e.error # NullError) = (local[p].remote = "fail")

\* C9: when the engine rejected the statement of an executeQuery, then at
\* the time the call ends the failure row (success=false, rowsAffected=0,
\* error = the engine's message) is in the history, and the call ends with
\* the engine's error, which the query route passes on unchanged.
C9_FailureRecordedAndSurfaced ==
  \A p \in Procs :
    (pc[p] = "done" /\ call[p].op = "executeQuery" /\ local[p].remote = "fail")
      => /\ local[p].error \in EngineMessages
         /\ Len(local[p].saved) = 1
         /\ queryHistory[local[p].saved[1]] =
              FailureEntry(call[p].id, call[p].query, local[p].error)
         /\ ret[p].kind = "error" /\ ret[p].error = local[p].error
         /\ RouteResponse(call[p], ret[p]) = [status |-> 500, error |-> local[p].error]

\* Occurrences of pat in text, and whether there is one.
Occurrences(text, pat) ==
  Cardinality({i \in 1..(Len(text) - Len(pat) + 1) : SubSeq(text, i, i + Len(pat) - 1) = pat})

Contains(text, pat) == Occurrences(text, pat) > 0

\* C10: a browse request whose filters are {search: "admin", column:
\* "username"} yields a statement with exactly one ILIKE condition, whose
\* bound parameter is "%admin%", and the text "admin" is not in the statement.
C10_SearchOneIlike ==
  (/\ statement # NoStatement
   /\ RouteFilters(request.query) = <<<<KeySearch, TextAdmin>>, <<KeyColumn, TextUsername>>>>)
    => /\ Occurrences(statement.text, <<"I", "L", "I", "K", "E">>) = 1
       /\ Len(statement.values) = 3
       /\ statement.values[3] = TextPercent \o TextAdmin \o TextPercent
       /\ ~Contains(statement.text, TextAdmin)

\* C11: a statement of getTableData or exportTableData reaches the remote
\* database only if the table name spliced into it is in the catalog listing
\* and every filter key spliced into it is a column of that table.
C11_IdentifiersValidated ==
  /\ statement # NoStatement
       => /\ request.table \in CatalogTables
          /\ \A i \in DOMAIN RouteFilters(request.query) :
               IsNonEmptyFilter(RouteFilters(request.query)[i])
                 => RouteFilters(request.query)[i][1] \in CatalogColumns(request.table)
  /\ exportStatement # NoText => exportRequest.table \in CatalogTables

\* C12: exporting a table whose SELECT returns no row gives the empty string
\* for format csv (no header line) and the text [] for format json.
C12_EmptyTableExport ==
  (exportData.kind = "ok" /\ exportRequest.rows = <<>>)
    => exportData.text = IF exportRequest.format = "csv" THEN <<>> ELSE <<"[", "]">>

\* C12 witness: the export of an existing table without rows has returned,
\* as CSV.
C12_Witness ==
  /\ exportData.kind = "ok" /\ exportRequest.rows = <<>>
  /\ exportRequest.table \in CatalogTables /\ exportRequest.format = "csv"

\* A reader of standard CSV: the records of a text, each a sequence of
\* fields; a quoted field ends at a double quote that is not doubled.
RECURSIVE CsvRead(_, _, _, _, _)
CsvRead(str, inQuotes, field, record, records) ==
  IF str = <<>> THEN Append(records, Append(record, field))
  ELSE LET c == Head(str) rest == Tail(str) IN
    IF inQuotes
    THEN IF c = "\"" /\ rest # <<>> /\ Head(rest) = "\""
         THEN CsvRead(Tail(rest), TRUE, Append(field, c), record, records)
         ELSE IF c = "\"" THEN CsvRead(rest, FALSE, field, record, records)
         ELSE CsvRead(rest, TRUE, Append(field, c), record, records)
    ELSE IF c = "\"" THEN CsvRead(rest, TRUE, field, record, records)
         ELSE IF c = "," THEN CsvRead(rest, FALSE, <<>>, Append(record, field), records)
         ELSE IF c = "\n" THEN CsvRead(rest, FALSE, <<>>, <<>>,
                                       Append(records, Append(record, field)))
         ELSE CsvRead(rest, FALSE, Append(field, c), record, records)

\* The stringified value of a column value: null is the empty field.
Stringified(value) == IF value.type = "null" THEN <<>> ELSE value.text

\* A text with every double quote written twice.
RECURSIVE Doubled(_)
Doubled(str) ==
  IF str = <<>> THEN <<>>
  ELSE IF Head(str) = "\"" THEN <<"\"", "\"">> \o Doubled(Tail(str))
  ELSE <<Head(str)>> \o Doubled(Tail(str))

\* The field the claim asks for.
EscapedField(str) ==
  IF \E i \in DOMAIN str : str[i] \in {",", "\"", "\n"}
  THEN <<"\"">> \o Doubled(str) \o <<"\"">>
  ELSE str

\* The lines of a text, split at the newlines outside double quotes.
RECURSIVE Lines(_, _, _)
Lines(str, inQuotes, line) ==
  IF str = <<>> THEN <<line>>
  ELSE IF Head(str) = "\n" /\ ~inQuotes THEN <<line>> \o Lines(Tail(str), FALSE, <<>>)
  ELSE Lines(Tail(str), IF Head(str) = "\"" THEN ~inQuotes ELSE inQuotes,
             Append(line, Head(str)))

\* C13: the CSV export of a table with rows is the header line of the first
\* row's keys followed by one line per row; a field whose stringified value
\* holds a comma, a double quote or a newline is wrapped in double quotes with
\* its double quotes doubled, any other field is the value unchanged; a CSV
\* reader gets the keys and the values back; and the row {id: 1, name: 'A,B'}
\* gives the lines  id,name  and  1,"A,B".
C13_CsvEscaping ==
  (exportData.kind = "ok" /\ exportRequest.format = "csv" /\ exportRequest.rows # <<>>)
    => LET rows == exportRequest.rows
           keys == [j \in DOMAIN rows[1] |-> rows[1][j][1]]
           lines == Lines(exportData.text, FALSE, <<>>)
       IN /\ Len(lines) = Len(rows) + 1
          /\ lines[1] = Join(keys, <<",">>)
          /\ \A i \in DOMAIN rows :
               lines[i + 1] = Join([j \in DOMAIN rows[i] |->
                                      EscapedField(Stringified(rows[i][j][2]))], <<",">>)
          /\ CsvRead(exportData.text, FALSE, <<>>, <<>>, <<>>)
               = <<keys>> \o [i \in DOMAIN rows |->
                                [j \in DOMAIN rows[i] |-> Stringified(rows[i][j][2])]]
          /\ rows = <<<<<<TextId, NumberValue(<<"1">>)>>,
                        <<TextName, StringValue(<<"A", ",", "B">>)>>>>>>
               => exportData.text = <<"i", "d", ",", "n", "a", "m", "e", "\n",
                                      "1", ",", "\"", "A", ",", "B", "\"">>

\* C13 witness: a CSV export has returned for two rows, one holding a value
\* with a double quote and one holding a value with a newline.
C13_Witness ==
  /\ exportData.kind = "ok" /\ exportRequest.format = "csv"
  /\ Len(exportRequest.rows) = 2
  /\ exportRequest.rows[1][2][2] = StringValue(<<"a", "\"", "b">>)
  /\ exportRequest.rows[2][2][2] = StringValue(<<"x", "\n", "y">>)

\* The failure the specification names for a statement that ran too long.
TimeoutMessage == "Timeout"

\* C14: an executeQuery whose statement has been pending for longer than the
\* configured timeout eventually ends with a Timeout failure, with a history
\* row with success = false recorded for it.
C14_OverdueStatementTimesOut ==
  \A p \in Procs :
    local[p].overdue
      ~> (/\ pc[p] = "done" /\ ret[p].kind = "error" /\ ret[p].error = TimeoutMessage
          /\ Len(local[p].saved) = 1
          /\ ~queryHistory[local[p].saved[1]].success)

\* C15: one executeQuery submits its statement to the pool at most once, and
\* once the engine has rejected it the call only records the failure and ends.
C15_NoRetry ==
  \A p \in Procs :
    call[p].op = "executeQuery"
      => /\ local[p].issued <= 1
         /\ local[p].remote = "fail"
              => (local[p].issued = 1 /\ pc[p] \in {"saveQueryHistory:failure", "done"})

\* C15 witness: an executeQuery whose statement the engine rejected has
\* recorded the failure and ended.
C15_Witness ==
  \E p \in Procs :
    /\ pc[p] = "done" /\ call[p].op = "executeQuery" /\ local[p].remote = "fail"
    /\ Len(local[p].saved) = 1 /\ ret[p].error \in EngineMessages

\* The history rows of one connection id, in the order of the table.
HistoryOf(h, id) == LET of(row) == row.connectionId = id IN SelectSeq(h, of)

IsPrefix(s, t) == Len(s) <= Len(t) /\ SubSeq(t, 1, Len(s)) = s

ListStep == listing = NoListing /\ listing' # NoListing

\* C17 as stated: getQueryHistory(connectionId) returns exactly the rows of
\* connectionId, in the order in which they were recorded.
C17_ListInRecordedOrder ==
  [][ListStep => listing'.rows = HistoryOf(historyTable, listing'.connectionId)]_vars

\* C17 amended: getQueryHistory(connectionId) returns exactly the rows of
\* connectionId, each once and none of another connection, ascending in
\* creation time; rows with different creation times are in the order in
\* which they were recorded, rows with the same creation time are in any order.
C17_ListByCreationTime ==
  [][ListStep =>
       LET r == listing'.rows
           recorded == HistoryOf(historyTable, listing'.connectionId)
       IN /\ Len(r) = Len(recorded)
          /\ {r[i] : i \in DOMAIN r} = {recorded[i] : i \in DOMAIN recorded}
          /\ \A i, j \in DOMAIN r :
               i < j => /\ r[i].createdAt <= r[j].createdAt
                        /\ r[i].createdAt # r[j].createdAt => r[i].id < r[j].id
    ]_vars

\* C17 witness: a listing of two rows recorded at different times was
\* returned while the table also held a row of the other connection.
C17_Witness ==
  /\ listing # NoListing
  /\ Len(listing.rows) = 2
  /\ listing.rows[1].createdAt < listing.rows[2].createdAt
  /\ \E i \in DOMAIN historyTable :
       /\ historyTable[i].connectionId # listing.connectionId
       /\ historyTable[i].id < listing.rows[2].id

\* The columns of the table the user opened (the one of schema public), and
\* the columns its primary key is on.
TableColumns(table) == {c \in catalog.columns : c.schema = "public" /\ c.table = table}

PrimaryKeyColumns(table) ==
  {ku.column : ku \in {k \in catalog.usage :
     /\ k.schema = "public" /\ k.table = table
     /\ \E tc \in catalog.constraints :
          /\ tc.schema = "public" /\ tc.table = table
          /\ tc.name = k.constraint /\ tc.type = "PRIMARY KEY"}}

\* C18: when the table has one primary-key column, getTableColumns returns
\* one entry per column of the table, flagged isPrimaryKey exactly for that
\* column, whatever other tables and schemas the database holds.
C18_PrimaryKeyFlag ==
  (columns.returned /\ Cardinality(PrimaryKeyColumns(columns.table)) = 1)
    => /\ {r.source : r \in columns.rows} = TableColumns(columns.table)
       /\ \A r \in columns.rows :
            /\ r.copies = 1
            /\ r.isPrimaryKey = (r.name \in PrimaryKeyColumns(columns.table))

\* The connection id a step of task p works on.
StepId(p) == IF call'[p].op # "none" THEN call'[p].id ELSE call[p].id

\* C19: a step of an operation on connection id a (getConnectionPool,
\* deleteConnection, updateConnection, a query) leaves the pool-map entry of
\* every other id as it was: present or absent, and the same Pool.
C19_OtherIdsUntouched ==
  [][\A p \in Procs :
       pc'[p] # pc[p]
         => \A b \in ConnIds \ {StepId(p)} :
              /\ MapHas(connectionPools', b) = MapHas(connectionPools, b)
              /\ MapHas(connectionPools, b) => connectionPools'[b] = connectionPools[b]
    ]_vars

\* C19 witness: both connections had a pool; deleteConnection of one has
\* ended, an updateConnection of the same one has ended, and the other's pool
\* is in the map and a query runs through it.
C19_Witness ==
  \E p, q \in Procs : \E a, b \in ConnIds :
    /\ a # b
    /\ pc[p] = "done" /\ call[p].op = "deleteConnection" /\ call[p].id = a
    /\ local[p].evicted # 0
    /\ pc[q] = "query" /\ call[q].id = b
    /\ MapHas(connectionPools, b) /\ connectionPools[b] = local[q].pool

\* C20: once deleteConnection(id) has completed (the record is gone), the
\* pool map has no entry for id, whatever getConnectionPool(id) was under way
\* meanwhile, and no statement is submitted any more through a pool of id.
C20_NoPoolAfterDelete ==
  [][/\ \A id \in ConnIds \ DOMAIN connections' : ~MapHas(connectionPools', id)
     /\ \A p \in Procs :
          (pc[p] = "acquired" /\ pc'[p] = "query") => call[p].id \in DOMAIN connections
    ]_vars

\* The two steps of getConnectionPool after it missed the map: the record
\* lookup settles, and the continuation runs to its return.
LookupStep(p) == pc[p] = "getConnection" /\ pc'[p] = "lookedUp"

ResumeStep(p) == pc[p] = "lookedUp" /\ pc'[p] # "lookedUp"

\* C21: a getConnectionPool(id) that missed the map reads the stored record
\* of id. When there is none it ends with 'Connection not found', constructs
\* no pool and leaves the pool map as it is; when there is one it constructs
\* a new pool from the credentials of that record, stores it under id and
\* returns it.
C21_AcquireOrNotFound ==
  [][\A p \in Procs :
       /\ LookupStep(p)
            => local'[p].conn = IF call[p].id \in DOMAIN connections
                                THEN connections[call[p].id].creds ELSE "undefined"
       /\ ResumeStep(p)
            => IF local[p].conn = "undefined"
               THEN /\ pc'[p] = "done"
                    /\ ret'[p].kind = "error" /\ ret'[p].error = NotFoundMessage
                    /\ local'[p].pool = 0
                    /\ pools' = pools /\ connectionPools' = connectionPools
               ELSE /\ pc'[p] = "acquired"
                    /\ MapHas(connectionPools', call[p].id)
                    /\ connectionPools'[call[p].id] \notin DOMAIN pools
                    /\ connectionPools'[call[p].id] \in DOMAIN pools'
                    /\ pools'[connectionPools'[call[p].id]]
                         = [creds |-> local[p].conn, id |-> call[p].id, ended |-> FALSE]
                    /\ local'[p].pool = connectionPools'[call[p].id]
    ]_vars

\* C21 witness: a call for the id without a record has ended with
\* 'Connection not found', and a call for the stored connection holds the
\* pool of the map, built from the record's (updated) credentials.
C21_Witness ==
  \E p, q \in Procs :
    /\ pc[p] = "done" /\ call[p].op \in PoolOps /\ call[p].id = "c2"
    /\ ret[p].error = NotFoundMessage /\ local[p].pool = 0
    /\ pc[q] = "acquired" /\ call[q].id = "c1" /\ local[q].conn = "credB"
    /\ MapHas(connectionPools, "c1") /\ connectionPools["c1"] = local[q].pool
    /\ pools[local[q].pool].creds = connections["c1"].creds

\* C22: when testConnection has returned, true or false, the throwaway pool
\* it constructed has been closed.
C22_TestPoolClosed ==
  \A p \in Procs :
    (pc[p] = "done" /\ call[p].op = "testConnection") => local[p].ended

\* The filters of a browse request that carry a value: every key of the
\* query string but offset and limit.
NonEmptyFilters(query) ==
  LET isFilter(pair) ==
        /\ pair[1] # <<"o", "f", "f", "s", "e", "t">>
        /\ pair[1] # <<"l", "i", "m", "i", "t">>
        /\ pair[2] # <<>>
  IN SelectSeq(query, isFilter)

EndsWith(text, pat) ==
  Len(text) >= Len(pat) /\ SubSeq(text, Len(text) - Len(pat) + 1, Len(text)) = pat

\* C23: in the statement of getTableData the parameter list is limit, offset
\* and then the filter values in order, each between percent signs; the
\* i-th condition compares with placeholder i+2; the conditions are joined
\* with AND; LIMIT and OFFSET use placeholders 1 and 2; and no filter value
\* is part of the statement text.
C23_FilterValuesBound ==
  statement # NoStatement
    => LET f == NonEmptyFilters(request.query)
           k == Len(f)
       IN /\ Len(statement.values) = k + 2
          /\ statement.values[1] = ParseInt(RouteLimit(request.query))
          /\ statement.values[2] = ParseInt(RouteOffset(request.query))
          /\ \A i \in 1..k :
               /\ statement.values[i + 2] = <<"%">> \o f[i][2] \o <<"%">>
               /\ Contains(statement.text,
                           f[i][1] \o <<":", ":", "t", "e", "x", "t", " ",
                                        "I", "L", "I", "K", "E", " ", "$">>
                                   \o NumberText(i + 2))
               /\ ~Contains(statement.text, f[i][2])
          /\ Occurrences(statement.text, <<"I", "L", "I", "K", "E">>) = k
          /\ Occurrences(statement.text, <<" ", "A", "N", "D", " ">>)
               = IF k = 0 THEN 0 ELSE k - 1
          /\ Occurrences(statement.text, <<"W", "H", "E", "R", "E", " ">>)
               = IF k = 0 THEN 0 ELSE 1
          /\ EndsWith(statement.text,
                      <<" ", "L", "I", "M", "I", "T", " ", "$", "1", " ",
                        "O", "F", "F", "S", "E", "T", " ", "$", "2">>)

\* C23 witness: a statement was built for a request with three filters that
\* carry a value and an explicit limit and offset.
C23_Witness ==
  /\ statement # NoStatement
  /\ Len(NonEmptyFilters(request.query)) = 3
  /\ HasKey(request.query, KeyLimit) /\ HasKey(request.query, KeyOffset)

\* C24: when the browse request names a sort column, the statement of
\* getTableData has ORDER BY followed by that column, and no condition of
\* the WHERE clause comes from the sort key.
C24_SortOrdersBy ==
  (statement # NoStatement /\ HasKey(request.query, KeySort)
                           /\ Lookup(request.query, KeySort) # <<>>)
    => /\ Contains(statement.text,
                   <<"O", "R", "D", "E", "R", " ", "B", "Y", " ">>
                     \o Lookup(request.query, KeySort))
       /\ ~Contains(statement.text, <<"s", "o", "r", "t", ":", ":">>)

\* C25: every call that submitted a statement through the pool of a
\* connection, a catalog or data statement of the core as well as a user's
\* statement, has by its end added a history row for that connection id.
C25_EveryStatementRecorded ==
  \A p \in Procs :
    (pc[p] = "done" /\ call[p].op \in PoolOps /\ local[p].issued > 0)
      => \E i \in DOMAIN queryHistory : queryHistory[i].connectionId = call[p].id

\* The count the engine reported for the statement of task p, 0 when it
\* reported none.
ReportedCount(p) == IF local[p].rowCount = <<>> THEN 0 ELSE local[p].rowCount[1]

\* C26: the rowCount of a result that executeQuery or a data query returns
\* and the rowsAffected of every history row are numbers: the count the
\* engine reported, 0 when it reported none, and 0 in every failure row.
C26_RowCountNeverNull ==
  /\ \A p \in Procs :
       (pc[p] = "done" /\ call[p].op \in PoolOps /\ ret[p].kind = "ok")
         => /\ ret[p].rowCount \in Nat
            /\ ret[p].rowCount = ReportedCount(p)
  /\ \A i \in DOMAIN queryHistory :
       /\ queryHistory[i].rowsAffected \in Nat
       /\ ~queryHistory[i].success => queryHistory[i].rowsAffected = 0
  /\ \A p \in Procs : \A j \in DOMAIN local[p].saved :
       queryHistory[local[p].saved[j]].success
         => queryHistory[local[p].saved[j]].rowsAffected = ReportedCount(p)

\* C26 witness: an executeQuery whose statement succeeded without a count
\* from the engine has returned and its history row is written.
C26_Witness ==
  \E p \in Procs :
    /\ pc[p] = "done" /\ call[p].op = "executeQuery" /\ ret[p].kind = "ok"
    /\ local[p].rowCount = <<>> /\ Len(local[p].saved) = 1
    /\ queryHistory[local[p].saved[1]].success

\* C27: no entry of getTableColumns has a null optional field: a column
\* without a default expression has defaultValue '', a column without a
\* generation expression has extra ''.
C27_NoNullColumnFields ==
  columns.returned
    => \A r \in columns.rows :
         /\ r.defaultValue # "NULL" /\ r.extra # "NULL"
         /\ r.source.default = "NULL" => r.defaultValue = ""
         /\ r.source.generation = "NULL" => r.extra = ""

\* C28: when the statement of an executeQuery succeeded, the call returns
\* its result and no history row with success = false is recorded for it,
\* also when the write of the success row fails.
C28_HistoryFailureNotStatementFailure ==
  \A p \in Procs :
    (pc[p] = "done" /\ call[p].op = "executeQuery" /\ local[p].remote = "ok")
      => /\ ret[p].kind = "ok"
         /\ \A j \in DOMAIN local[p].saved : queryHistory[local[p].saved[j]].success

\* C29: a deleteConnection(id) on a connection that has a history row ends
\* normally with the record removed, and does not leave the record in place
\* with its pool-map entry gone.
C29_DeleteWithHistory ==
  \A p \in Procs :
    (pc[p] = "done" /\ call[p].op = "deleteConnection"
       /\ \E i \in DOMAIN queryHistory : queryHistory[i].connectionId = call[p].id)
      => /\ ret[p].kind = "ok"
         /\ ~MapHas(connections, call[p].id)
         /\ ~(MapHas(connections, call[p].id) /\ local[p].evicted # 0
                /\ ~MapHas(connectionPools, call[p].id))

\* The texts of the bodies the query route must accept: non-empty strings.
StatementTexts == {b.text : b \in {b \in Bodies : b.type = "string" /\ b.text # ""}}

\* C30: a query request whose body has no query, an empty one or one that is
\* not a string never becomes an executeQuery call; the handler answers it
\* with status 400 in a step that acquires and creates no pool, submits no
\* statement and writes no history row.
C30_BadQueryRejected ==
  [][\A p \in Procs :
       /\ call'[p].op = "executeQuery" => call'[p].query \in StatementTexts
       /\ (pc[p] = "idle" /\ call'[p].op = "queryRoute")
            => /\ call'[p].query \notin StatementTexts
               /\ pc'[p] = "done"
               /\ RouteResponse(call'[p], ret'[p]).status = 400
               /\ local'[p].pool = 0 /\ local'[p].issued = 0 /\ local'[p].saved = <<>>
               /\ pools' = pools /\ connectionPools' = connectionPools
               /\ queryHistory' = queryHistory
    ]_vars

\* C30 witness: a request for the stored connection whose query is a number
\* has been answered while an executeQuery of the other handler is under way.
C30_Witness ==
  \E p, q \in Procs :
    /\ pc[p] = "done" /\ call[p].op = "queryRoute" /\ call[p].id = "c1"
    /\ call[p].query = "5"
    /\ RouteResponse(call[p], ret[p]).status = 400
    /\ pc[q] = "query" /\ call[q].op = "executeQuery"

====
